---- MODULE Spec2Model ----
(***************************************************************************)
(* Model of GpmClient.data_list_v2_parallel (src/gpm.py): the parallel    *)
(* batched fetch of /DataList/v2 and the normalisation of the collected    *)
(* payloads into one table.                                                *)
(*                                                                         *)
(* One call is modelled.  The calling thread walks through                 *)
(*   start -> submit -> collect -> exited -> returned | raised             *)
(* while the worker threads of the ThreadPoolExecutor take the submitted   *)
(* batches from the pool's FIFO queue, invoke the transport and finish     *)
(* the batches' futures.                                                   *)
(***************************************************************************)
EXTENDS Integers, Sequences, FiniteSets, TLC

\* ---------------------------------------------------------------- bounds
\* datasource ids are drawn from 1..NumKeys
NumKeys == 2
\* longest ds_ids sequence explored
MaxKeys == 3
\* largest batch_size explored (0 and -1 are explored too)
MaxBatchSize == 2
\* largest max_workers explored (0 is explored too)
MaxWorkers == 2

\* most batches of one call explored
MaxBatches == 2

Keys == 1..NumKeys
BatchSizes == {-1, 0} \cup (1..MaxBatchSize)
WorkerCounts == 0..MaxWorkers

\* Keys are opaque to the code: they are only passed through str() and joined,
\* never compared or computed with.  Key sequences are therefore explored up
\* to a renaming of the keys: the first key is 1 and a new key is the
\* smallest unused one (so <<1, 1, 2>> and <<1, 2, 1>> are both explored,
\* <<2, 2, 1>> is the former renamed).
FirstOccurrenceOrder(s) ==
    \A i \in DOMAIN s : \A k \in 1..(s[i] - 1) : \E j \in 1..(i - 1) : s[j] = k

KeySeqs == {s \in UNION {[1..n -> Keys] : n \in 0..MaxKeys} : FirstOccurrenceOrder(s)}

VARIABLES
    ds_ids,        \* list(ds_ids), the requested keys
    batch_size,    \* keyword argument batch_size
    max_workers,   \* keyword argument max_workers
    as_dataframe,  \* keyword argument as_dataframe
    tz_local,      \* keyword argument tz_local
    headers,       \* keyword argument headers
    additional_params, \* keyword argument additional_params
    start,         \* argument start
    end,           \* argument end
    pc,            \* position of the calling thread
    futures,       \* the futures dict, in submission order
    results,       \* the results list
    order,         \* indices of the futures in the order as_completed yielded them
    ret,           \* the value returned to the caller
    err            \* the exception raised to the caller

config == <<ds_ids, batch_size, max_workers, as_dataframe, tz_local,
           headers, additional_params, start, end>>
vars == <<ds_ids, batch_size, max_workers, as_dataframe, tz_local,
          headers, additional_params, start, end,
          pc, futures, results, order, ret, err>>

\* ------------------------------------------------------------ small helpers
Min(a, b) == IF a < b THEN a ELSE b

RECURSIVE Flatten(_)
Flatten(ss) == IF ss = <<>> THEN <<>> ELSE Head(ss) \o Flatten(Tail(ss))

RECURSIVE SumLen(_)
SumLen(ss) == IF ss = <<>> THEN 0 ELSE Len(Head(ss)) + SumLen(Tail(ss))

Range(s) == {s[i] : i \in DOMAIN s}

\* ------------------------------------------------------------------ _chunk
\* range(0, n, size) as a sequence; size = 0 raises and is handled by the caller
RECURSIVE RangeFrom(_, _, _)
RangeFrom(i, n, size) ==
    IF size > 0 /\ i < n THEN <<i>> \o RangeFrom(i + size, n, size) ELSE <<>>

PyRangeInclusive(n, size) == RangeFrom(0, n + 1, size)

\* range(0, len(seq), size): the start indices of the batches
PyRange(n, size) == RangeFrom(0, n, size)

ChunkSliceNoOffset(seq, i, size) == SubSeq(seq, i + 1, Min(size, Len(seq)))

\* seq[i:i + size] for 0 <= i, with Python's clamping of the upper index
ChunkSlice(seq, i, size) == SubSeq(seq, i + 1, Min(i + size, Len(seq)))

\* the batches the generator _chunk(seq, size) yields, in order (size # 0)
Chunk(seq, size) ==
    LET starts == PyRange(Len(seq), size)
    IN  [k \in 1..Len(starts) |-> ChunkSlice(seq, starts[k], size)]

\* ------------------------------------------------------------ wire values
\* the Date field of a raw record: an ISO-8601 text with a UTC offset, or junk
Dates == { [kind |-> "iso",  hh |-> 0, off |-> 0],
           [kind |-> "iso",  hh |-> 2, off |-> 2],
           [kind |-> "junk", hh |-> 0, off |-> 0] }

RawRecord(k, d) == [DataSourceId |-> k, Date |-> d, Value |-> 10 * k]

\* JSON bodies: an array of raw records, a (non-empty) object of scalars,
\* or a text that is not JSON
ArrayBody(recs) == [type |-> "array", recs |-> recs]
ObjectBody == [type |-> "object", recs |-> <<>>]
MalformedBody == [type |-> "malformed", recs |-> <<>>]
EmptyPayload == ArrayBody(<<>>)

\* the arrays the server may answer for a batch: nothing, or one record per key
ArraysFor(batch) ==
    {<<>>} \cup { [j \in 1..Len(batch) |-> RawRecord(batch[j], ds[j])] :
                  ds \in [1..Len(batch) -> Dates] }

NetError == [kind |-> "exception", status |-> 0, body |-> MalformedBody]
NoResponse == [kind |-> "none", status |-> 0, body |-> MalformedBody]
HttpResponse(status, body) == [kind |-> "response", status |-> status, body |-> body]

\* everything self.get() may do for a batch: raise, answer an error status,
\* or answer 200 with some body
TransportOutcomes(batch) ==
    {NetError, HttpResponse(500, ObjectBody), HttpResponse(200, MalformedBody),
     HttpResponse(200, ObjectBody)}
    \cup {HttpResponse(200, ArrayBody(a)) : a \in ArraysFor(batch)}

\* ----------------------------------------------------------- the requests
\* an optional dict argument: None, or a dict (a function on its names)
NoneArg == [given |-> FALSE, dict |-> <<>>]
DictArg(d) == [given |-> TRUE, dict |-> d]

\* `if d:` is false for None and for the empty dict
TruthyArg(a) == a.given /\ DOMAIN a.dict # {}

\* a.update(b): the names of both, b's value where both have the name
DictUpdate(a, b) == [n \in DOMAIN a \cup DOMAIN b |-> IF n \in DOMAIN b THEN b[n] ELSE a[n]]

\* the headers arguments explored: None, {}, an override of TimeZone, an
\* extra header
HeaderArgs == {NoneArg, DictArg(<<>>), DictArg([TimeZone |-> "Local"]),
               DictArg("X-Client" :> "pbi")}

\* the additional_params arguments explored: None, an override of grouping,
\* an override of the key list, an extra parameter
ParamArgs == {NoneArg, DictArg([grouping |-> "hour"]),
              DictArg([dataSourceIds |-> "9"]), DictArg([page |-> "2"])}

\* start and end are ISO-8601 texts or datetime objects
TextArg(t) == [kind |-> "str", text |-> t, micro |-> 0]
DatetimeArg(t, us) == [kind |-> "datetime", text |-> t, micro |-> us]
StartText == TextArg("2025-05-01")
StartDatetime == DatetimeArg("2025-05-01T00:00:00", 250000)
EndText == TextArg("2025-05-02T00:00:00")
EndDatetime == DatetimeArg("2025-05-02T00:00:00", 0)

\* the keyword arguments left at their defaults
grouping == "raw"
aggreg_type == 1

\* dt.isoformat(timespec="seconds"): the microseconds are not rendered
IsoformatSeconds(dt) == dt.text

\* _iso: a text is passed as it is, a datetime is rendered to the second
Iso(dt) == IF dt.kind = "str" THEN dt.text ELSE IsoformatSeconds(dt)

TzHeadersDefaultWins ==
    LET base == IF tz_local = FALSE THEN [TimeZone |-> "UTC"] ELSE <<>>
    IN  IF TruthyArg(headers) THEN DictUpdate(headers.dict, base) ELSE base

\* tz_headers: TimeZone UTC unless tz_local, then the caller's headers on top
TzHeaders ==
    LET base == IF tz_local = FALSE THEN [TimeZone |-> "UTC"] ELSE <<>>
    IN  IF TruthyArg(headers) THEN DictUpdate(base, headers.dict) ELSE base

\* ",".join(map(str, batch))
RECURSIVE JoinKeys(_)
JoinKeys(batch) ==
    IF batch = <<>> THEN ""
    ELSE IF Len(batch) = 1 THEN ToString(batch[1])
    ELSE ToString(batch[1]) \o "," \o JoinKeys(Tail(batch))

BatchParamsDefaultsWin(batch) ==
    LET params == [dataSourceIds |-> JoinKeys(batch), startDate |-> Iso(start),
                   endDate |-> Iso(end), aggregationType |-> aggreg_type,
                   grouping |-> grouping]
    IN  IF TruthyArg(additional_params)
        THEN DictUpdate(additional_params.dict, params) ELSE params

\* the params dict of _submit
BatchParams(batch) ==
    LET params == [dataSourceIds |-> JoinKeys(batch), startDate |-> Iso(start),
                   endDate |-> Iso(end), aggregationType |-> aggreg_type,
                   grouping |-> grouping]
    IN  IF TruthyArg(additional_params)
        THEN DictUpdate(params, additional_params.dict) ELSE params

\* GpmClient.request: the client's default headers, the given ones on top
DefaultHeaders ==
    ("Authorization" :> "Bearer token") @@ ("Content-Type" :> "application/json")
        @@ ("Accept" :> "application/json")

SentHeaders(hs) == IF DOMAIN hs # {} THEN DictUpdate(DefaultHeaders, hs) ELSE DefaultHeaders

\* self.get("/DataList/v2", params=params, headers=tz_headers, timeout=timeout)
NoRequest == [path |-> "", params |-> <<>>, headers |-> <<>>]
RequestFor(batch) ==
    [path |-> "/DataList/v2", params |-> BatchParams(batch), headers |-> SentHeaders(TzHeaders)]

\* ------------------------------------------------------------------ futures
NewFuture(batch) ==
    [batch |-> batch, state |-> "pending", resp |-> NoResponse, calls |-> 0,
     request |-> NoRequest]

Submitted == DOMAIN futures
Pending  == {i \in Submitted : futures[i].state = "pending"}
Running  == {i \in Submitted : futures[i].state = "running"}
Finished == {i \in Submitted : futures[i].state = "finished"}

\* ---------------------------------------------------------------- the call
\* the state of the call before its first statement
Entered ==
    /\ pc = "start"
    /\ futures = <<>>
    /\ results = <<>>
    /\ order = <<>>
    /\ ret = [kind |-> "none", list |-> <<>>, rows |-> <<>>]
    /\ err = "none"

\* a call with headers, additional_params, start and end left plain
Init ==
    /\ ds_ids \in KeySeqs
    /\ batch_size \in BatchSizes
    /\ Len(PyRange(Len(ds_ids), batch_size)) <= MaxBatches
    /\ max_workers \in WorkerCounts
    /\ as_dataframe \in BOOLEAN
    /\ tz_local \in BOOLEAN
    /\ headers = NoneArg
    /\ additional_params = NoneArg
    /\ start = StartText
    /\ end = EndText
    /\ Entered

NoReturn == [kind |-> "none", list |-> <<>>, rows |-> <<>>]
ListReturn(payloads) == [kind |-> "list", list |-> payloads, rows |-> <<>>]
TableReturn(rows) == [kind |-> "table", list |-> <<>>, rows |-> rows]

\* `if not ds_ids: return pd.DataFrame() if as_dataframe else []`
EmptyReturn ==
    /\ pc = "start"
    /\ ds_ids = <<>>
    /\ pc' = "returned"
    /\ ret' = IF as_dataframe THEN TableReturn(<<>>) ELSE ListReturn(<<>>)
    /\ UNCHANGED <<config, futures, results, order, err>>

\* ThreadPoolExecutor(max_workers=max_workers): the constructor raises
\* ValueError for max_workers <= 0
PoolRejects == max_workers <= 0

OpenPoolUnguarded ==
    /\ pc = "start"
    /\ IF PoolRejects
       THEN pc' = "raised" /\ err' = "ValueError"
       ELSE pc' = "submit" /\ err' = err
    /\ UNCHANGED <<config, futures, results, order, ret>>

\* `with ThreadPoolExecutor(max_workers=max_workers) as pool:`, reached only
\* with keys
OpenPool ==
    /\ pc = "start"
    /\ ds_ids # <<>>
    /\ IF PoolRejects
       THEN pc' = "raised" /\ err' = "ValueError"
       ELSE pc' = "submit" /\ err' = err
    /\ UNCHANGED <<config, futures, results, order, ret>>

\* the first next() of _chunk evaluates range(0, len(seq), 0), which raises
\* ValueError; the with block is left with nothing submitted
ChunkError ==
    /\ pc = "submit"
    /\ batch_size = 0
    /\ pc' = "raised"
    /\ err' = "ValueError"
    /\ UNCHANGED <<config, futures, results, order, ret>>

\* one iteration of the dict comprehension: the generator yields the next
\* batch and pool.submit queues it
SubmitBatch ==
    /\ pc = "submit"
    /\ batch_size # 0
    /\ Len(futures) < Len(Chunk(ds_ids, batch_size))
    /\ futures' = Append(futures, NewFuture(Chunk(ds_ids, batch_size)[Len(futures) + 1]))
    /\ UNCHANGED <<config, pc, results, order, ret, err>>

\* the generator is exhausted: the futures dict is complete and the
\* as_completed loop begins
SubmitDone ==
    /\ pc = "submit"
    /\ batch_size # 0
    /\ Len(futures) = Len(Chunk(ds_ids, batch_size))
    /\ pc' = "collect"
    /\ UNCHANGED <<config, futures, results, order, ret, err>>

\* ------------------------------------------------------------- the workers
SlotFreeOffByOne == Cardinality(Running) <= max_workers

SlotFreeKeepsSpare == Cardinality(Running) + 1 < max_workers

\* the pool runs at most max_workers threads, each running one work item
SlotFree == Cardinality(Running) < max_workers

\* the head of the pool's FIFO work queue
QueueHead == CHOOSE i \in Pending : \A j \in Pending : i <= j

\* a worker thread takes the oldest queued batch and calls _submit(batch),
\* which invokes the transport through self.get
StartFetch ==
    /\ Pending # {}
    /\ SlotFree
    /\ futures' = [futures EXCEPT ![QueueHead].state = "running",
                                  ![QueueHead].calls = @ + 1,
                                  ![QueueHead].request = RequestFor(futures[QueueHead].batch)]
    /\ UNCHANGED <<config, pc, results, order, ret, err>>

FinishFetchAppending ==
    \E i \in Running :
      \E r \in TransportOutcomes(futures[i].batch) :
        /\ futures' = [futures EXCEPT ![i].state = "finished", ![i].resp = r]
        /\ results' = Append(results, r.body)
        /\ UNCHANGED <<config, pc, order, ret, err>>

FinishFetchRetrying ==
    \E i \in Running :
      \E r \in TransportOutcomes(futures[i].batch) :
        /\ futures' = IF r.kind = "exception" /\ futures[i].calls < 2
                       THEN [futures EXCEPT ![i].state = "pending"]
                       ELSE [futures EXCEPT ![i].state = "finished", ![i].resp = r]
        /\ UNCHANGED <<config, pc, results, order, ret, err>>

\* the transport returns a response or raises; the future is finished with it
FinishFetch ==
    \E i \in Running :
      \E r \in TransportOutcomes(futures[i].batch) :
        /\ futures' = [futures EXCEPT ![i].state = "finished", ![i].resp = r]
        /\ UNCHANGED <<config, pc, results, order, ret, err>>

\* ------------------------------------------------------ the collection loop
PayloadOfUnchecked(resp) ==
    IF resp.kind = "exception" THEN EmptyPayload
    ELSE IF resp.body.type = "malformed" THEN EmptyPayload
    ELSE resp.body

\* try: fut.result(); resp.raise_for_status(); resp.json()
\* except Exception: payload = []
PayloadOf(resp) ==
    IF resp.kind = "exception" THEN EmptyPayload
    ELSE IF resp.status >= 400 THEN EmptyPayload
    ELSE IF resp.body.type = "malformed" THEN EmptyPayload
    ELSE resp.body

\* futures as_completed may yield next: finished and not yet yielded
Collectable == {i \in Finished : i \notin Range(order)}

CollectPrepending ==
    /\ pc = "collect"
    /\ \E i \in Collectable :
         /\ results' = <<PayloadOf(futures[i].resp)>> \o results
         /\ order' = Append(order, i)
    /\ UNCHANGED <<config, pc, futures, ret, err>>

\* the try block raised, so the except block runs
Caught(resp) ==
    resp.kind = "exception" \/ resp.status >= 400 \/ resp.body.type = "malformed"

\* the except block logs futures[fut][0], which raises IndexError for an
\* empty batch
HandlerRaises(i) == Caught(futures[i].resp) /\ futures[i].batch = <<>>

\* one iteration of `for fut in as_completed(futures)`; an exception of the
\* except block leaves the loop and the with block and reaches the caller
Collect ==
    /\ pc = "collect"
    /\ \E i \in Collectable :
         IF HandlerRaises(i)
         THEN /\ pc' = "raised"
              /\ err' = "IndexError"
              /\ UNCHANGED <<results, order>>
         ELSE /\ results' = Append(results, PayloadOf(futures[i].resp))
              /\ order' = Append(order, i)
              /\ UNCHANGED <<pc, err>>
    /\ UNCHANGED <<config, futures, ret>>

LoopDoneAtFirst == order # <<>> \/ Submitted = {}

\* as_completed has yielded every future of the dict
LoopDone == Range(order) = Submitted

\* leaving the with block: shutdown(wait=True) joins the workers
ShutdownDone == Pending = {} /\ Running = {}

ExitPoolNoWait ==
    /\ pc = "collect"
    /\ order # <<>>
    /\ pc' = "exited"
    /\ UNCHANGED <<config, futures, results, order, ret, err>>

ExitPool ==
    /\ pc = "collect"
    /\ LoopDone
    /\ ShutdownDone
    /\ pc' = "exited"
    /\ UNCHANGED <<config, futures, results, order, ret, err>>

\* `if not as_dataframe: return results`
ReturnRaw ==
    /\ pc = "exited"
    /\ ~as_dataframe
    /\ pc' = "returned"
    /\ ret' = ListReturn(results)
    /\ UNCHANGED <<config, futures, results, order, err>>

\* ------------------------------------------------------------ normalisation
\* pd.to_datetime(text, utc=True, errors="coerce"): the instant in UTC (hours
\* after 2025-05-01T00:00Z), or NaT for a text that is no timestamp
NaT == [nat |-> TRUE, utc_hour |-> 0]
ToDatetimeUtc(d) ==
    IF d.kind = "iso" THEN [nat |-> FALSE, utc_hour |-> d.hh - d.off] ELSE NaT

NormalizeRecordNaiveLocal(r, tzl) ==
    IF tzl
    THEN [datasource_id |-> r.DataSourceId,
          timestamp_local |-> IF r.Date.kind = "iso"
                              THEN [nat |-> FALSE, utc_hour |-> r.Date.hh] ELSE NaT,
          value |-> r.Value]
    ELSE [datasource_id |-> r.DataSourceId, timestamp_utc |-> ToDatetimeUtc(r.Date),
          value |-> r.Value]

\* ts_col = "timestamp_local" if tz_local else "timestamp_utc"
TsCol(tzl) == IF tzl THEN "timestamp_local" ELSE "timestamp_utc"

\* df.rename(columns=...) followed by the to_datetime of the timestamp column
NormalizeRecord(r, tzl) ==
    IF tzl
    THEN [datasource_id |-> r.DataSourceId, timestamp_local |-> ToDatetimeUtc(r.Date),
          value |-> r.Value]
    ELSE [datasource_id |-> r.DataSourceId, timestamp_utc |-> ToDatetimeUtc(r.Date),
          value |-> r.Value]

\* `if not payload: continue` keeps the payloads that are truthy
Truthy(payload) == payload.type = "object" \/ payload.recs # <<>>

\* pd.DataFrame(payload) builds a frame from a list of records; for an object
\* of scalars it raises ValueError
Frameable(payload) == payload.type = "array"

FrameOfDroppingNaT(payload, tzl) ==
    LET rows == [j \in 1..Len(payload.recs) |-> NormalizeRecord(payload.recs[j], tzl)]
    IN  SelectSeq(rows, LAMBDA r : ~r[TsCol(tzl)].nat)

\* df = pd.DataFrame(payload), renamed and parsed: one row per record
FrameOf(payload, tzl) ==
    [j \in 1..Len(payload.recs) |-> NormalizeRecord(payload.recs[j], tzl)]

\* the parts list, one frame per truthy payload, in results order
Parts(payloads, tzl) ==
    LET kept == SelectSeq(payloads, Truthy)
    IN  [k \in 1..Len(kept) |-> FrameOf(kept[k], tzl)]

ConcatFirstOnly(parts) == IF parts = <<>> THEN <<>> ELSE Head(parts)

\* pd.concat(parts, ignore_index=True) if parts else pd.DataFrame()
Concat(parts) == Flatten(parts)

\* pd.concat raises ValueError for an empty list of frames
PdConcatRaises(parts) == parts = <<>>

FinalTableUnguarded(parts) == [raises |-> PdConcatRaises(parts), rows |-> Concat(parts)]

\* `pd.concat(parts, ignore_index=True) if parts else pd.DataFrame()`
FinalTable(parts) ==
    IF parts # <<>>
    THEN [raises |-> PdConcatRaises(parts), rows |-> Concat(parts)]
    ELSE [raises |-> FALSE, rows |-> <<>>]

Normalize ==
    /\ pc = "exited"
    /\ as_dataframe
    /\ IF \/ \E k \in DOMAIN results : Truthy(results[k]) /\ ~Frameable(results[k])
          \/ FinalTable(Parts(results, tz_local)).raises
       THEN pc' = "raised" /\ err' = "ValueError" /\ ret' = ret
       ELSE pc' = "returned" /\ err' = err
            /\ ret' = TableReturn(FinalTable(Parts(results, tz_local)).rows)
    /\ UNCHANGED <<config, futures, results, order>>

Next ==
    \/ EmptyReturn
    \/ OpenPool
    \/ ChunkError
    \/ SubmitBatch
    \/ SubmitDone
    \/ StartFetch
    \/ FinishFetch
    \/ Collect
    \/ ExitPool
    \/ ReturnRaw
    \/ Normalize

Spec == Init /\ [][Next]_vars

\* the steps of the calling thread
CallerStep ==
    \/ EmptyReturn
    \/ OpenPool
    \/ ChunkError
    \/ SubmitBatch
    \/ SubmitDone
    \/ Collect
    \/ ExitPool
    \/ ReturnRaw
    \/ Normalize

\* the calls explored for progress: scheduling does not depend on the keys'
\* values or on the naming of the timestamp column, so the keys are distinct
\* and tz_local is left at its default
InitLive ==
    /\ ds_ids \in {[i \in 1..n |-> i] : n \in 0..Min(MaxKeys, NumKeys)}
    /\ batch_size \in BatchSizes
    /\ Len(PyRange(Len(ds_ids), batch_size)) <= MaxBatches
    /\ max_workers \in WorkerCounts
    /\ as_dataframe \in BOOLEAN
    /\ tz_local = FALSE
    /\ headers = NoneArg
    /\ additional_params = NoneArg
    /\ start = StartText
    /\ end = EndText
    /\ Entered

\* fair scheduling: the calling thread and an idle worker with queued work
\* are eventually run, and every transport invocation eventually returns or
\* raises
SpecLive ==
    /\ InitLive
    /\ [][Next]_vars
    /\ WF_vars(CallerStep)
    /\ WF_vars(StartFetch)
    /\ WF_vars(FinishFetch)

\* a call with every explored value of headers, additional_params, start and
\* end; the requests do not depend on the keys' values or on the size of the
\* pool, so the keys are distinct and the pool is as large as explored
InitRequest ==
    /\ ds_ids \in {[i \in 1..n |-> i] : n \in 0..Min(MaxKeys, NumKeys)}
    /\ batch_size \in BatchSizes
    /\ Len(PyRange(Len(ds_ids), batch_size)) <= MaxBatches
    /\ max_workers = MaxWorkers
    /\ as_dataframe \in BOOLEAN
    /\ tz_local \in BOOLEAN
    /\ headers \in HeaderArgs
    /\ additional_params \in ParamArgs
    /\ start \in {StartText, StartDatetime}
    /\ end = EndDatetime
    /\ Entered

SpecRequest == InitRequest /\ [][Next]_vars


\* ======================================================================
\* Properties
\* ======================================================================
\* the batches of the submitted futures, in submission order
Batches == [i \in DOMAIN futures |-> futures[i].batch]

\* the dict comprehension has consumed the whole generator
Dispatched ==
    \/ pc \in {"collect", "exited"}
    \/ pc \in {"returned", "raised"} /\ futures # <<>>

\* a batch's fetch failed: the transport raised, answered an error status,
\* or answered a body that is not JSON
Failed(resp) ==
    resp.kind = "exception" \/ resp.status \notin 200..299 \/ resp.body.type = "malformed"

Count(seq, x) == Cardinality({j \in DOMAIN seq : seq[j] = x})

\* C1: for batch_size >= 1 the batches are the contiguous slices
\* keys[i*size:(i+1)*size] in order: their concatenation is the input, every
\* batch is non-empty and every batch but the last has length batch_size
ChunkPartitions ==
    (batch_size >= 1 /\ Dispatched) =>
        /\ Flatten(Batches) = ds_ids
        /\ \A i \in DOMAIN Batches :
             /\ Batches[i] # <<>>
             /\ i < Len(Batches) => Len(Batches[i]) = batch_size
             /\ \A j \in DOMAIN Batches[i] :
                  Batches[i][j] = ds_ids[(i - 1) * batch_size + j]

ChunkWitness ==
    /\ Dispatched
    /\ batch_size = 2
    /\ Len(ds_ids) = 3
    /\ ds_ids[1] = ds_ids[2]
    /\ Len(futures) = 2
    /\ Len(futures[2].batch) = 1

\* C2: at most max_workers fetches are in flight, and a queued batch starts
\* only in a state where fewer than max_workers fetches are running
InFlightBounded ==
    [][ /\ Cardinality(Running') <= max_workers
        /\ \A i \in Pending : i \in Running' => Cardinality(Running) < max_workers
      ]_vars

InFlightWitness ==
    /\ max_workers >= 1
    /\ Cardinality(Running) = max_workers
    /\ Pending # {}

\* C3: the call has returned only when every batch was submitted and every
\* submitted fetch has finished; before that the caller holds no result
BarrierBeforeReturn ==
    /\ pc = "returned" =>
         /\ Pending = {} /\ Running = {}
         /\ Len(futures) = Len(Chunk(ds_ids, batch_size))
    /\ pc # "returned" => ret = NoReturn

BarrierWitness ==
    /\ pc = "returned"
    /\ Len(futures) = 2
    /\ max_workers = 1
    /\ ret # NoReturn

\* C4: the returned outcome list has exactly one entry per submitted batch
OneOutcomePerBatch ==
    /\ Len(results) = Len(order)
    /\ \A k, l \in DOMAIN order : order[k] = order[l] => k = l
    /\ Range(order) \subseteq Submitted
    /\ (pc = "returned" /\ ~as_dataframe /\ ds_ids # <<>>) =>
         /\ ret.kind = "list"
         /\ Len(ret.list) = Len(Chunk(ds_ids, batch_size))
         /\ Range(order) = 1..Len(Chunk(ds_ids, batch_size))

OneOutcomeWitness ==
    /\ pc = "returned"
    /\ ~as_dataframe
    /\ max_workers = 1
    /\ Len(ret.list) = 2
    /\ order = <<2, 1>>

NeverRaisesWhenValid ==
    (batch_size >= 1 /\ max_workers >= 1) => pc # "raised"

\* C7: a call with batch_size < 1 is rejected before any fetch is issued
BatchSizeRejected ==
    batch_size < 1 =>
        /\ pc # "returned"
        /\ \A i \in Submitted : futures[i].calls = 0

\* C8: a call with max_workers < 1 is rejected before any fetch is issued
MaxWorkersRejected ==
    max_workers < 1 =>
        /\ pc # "returned"
        /\ \A i \in Submitted : futures[i].calls = 0

\* the rows a batch contributes: those of its payload when its fetch
\* succeeded, none otherwise
RowsOfBatch(i) ==
    IF Failed(futures[i].resp) \/ futures[i].resp.body.type # "array"
    THEN <<>>
    ELSE FrameOf(futures[i].resp.body, tz_local)

TableReturned == pc = "returned" /\ as_dataframe /\ futures # <<>>

\* C9: the table holds exactly the records of the batches that succeeded
\* with a non-empty payload: the row count is the sum of those payloads'
\* lengths and every record occurs as often as in the payloads
TableIsSuccessfulPayloads ==
    TableReturned =>
        LET expected == Flatten([i \in DOMAIN futures |-> RowsOfBatch(i)])
        IN  /\ ret.kind = "table"
            /\ Len(ret.rows) = SumLen([i \in DOMAIN futures |-> RowsOfBatch(i)])
            /\ \A r \in Range(expected) \cup Range(ret.rows) :
                 Count(ret.rows, r) = Count(expected, r)
            /\ (\A i \in DOMAIN futures : Len(RowsOfBatch(i)) = Len(futures[i].batch))
                  => Len(ret.rows) = Len(ds_ids)

TableWitness ==
    /\ TableReturned
    /\ Len(futures) = 2
    /\ Len(ds_ids) = 3
    /\ Len(ret.rows) = 3
    /\ \A i \in DOMAIN futures : Len(RowsOfBatch(i)) = Len(futures[i].batch)

TablePartialWitness ==
    /\ TableReturned
    /\ Len(futures) = 2
    /\ Len(futures[1].batch) = 2
    /\ Failed(futures[1].resp)
    /\ Len(ret.rows) = 1
    /\ ret.rows[1].datasource_id = ds_ids[3]

\* C10: the table is the batches' row blocks in the order the futures were
\* collected, each block contiguous and in its payload's order
RowsInCollectionOrder ==
    TableReturned =>
        ret.rows = Flatten([k \in DOMAIN order |-> RowsOfBatch(order[k])])

RowOrderWitness ==
    /\ TableReturned
    /\ order = <<2, 1>>
    /\ Len(ret.rows) = 3
    /\ ret.rows[1].datasource_id = ds_ids[3]
    /\ ret.rows[2].datasource_id = ds_ids[1]
    /\ ret.rows[3].datasource_id = ds_ids[2]
    /\ ds_ids[1] # ds_ids[2]
    /\ ds_ids[3] # ds_ids[1]


\* every batch of the call has finished with an empty outcome
AllOutcomesEmpty ==
    /\ futures # <<>>
    /\ \A i \in Submitted :
         /\ futures[i].state = "finished"
         /\ Failed(futures[i].resp) \/ futures[i].resp.body = EmptyPayload

\* C11: when every batch's outcome is empty the call returns an empty table
\* and raises nothing
TotalFailureGivesEmptyTable ==
    (as_dataframe /\ AllOutcomesEmpty /\ pc \in {"returned", "raised"}) =>
        /\ pc = "returned"
        /\ ret = TableReturn(<<>>)
        /\ err = "none"

TotalFailureWitness ==
    /\ as_dataframe
    /\ pc = "returned"
    /\ Len(futures) = 2
    /\ futures[1].resp = NetError
    /\ futures[2].resp.kind = "response"
    /\ futures[2].resp.status = 500
    /\ ret = TableReturn(<<>>)


\* C12: normalising the same outcomes with the other tz_local gives the same
\* rows in the same order, with the same key, value and parsed UTC instant;
\* only the name of the timestamp column differs
TzModeOnlyRenames ==
    TableReturned =>
        LET mine == ret.rows
            other == FinalTable(Parts(results, ~tz_local)).rows
            col == TsCol(tz_local)
            ocol == TsCol(~tz_local)
        IN  /\ Len(mine) = Len(other)
            /\ col # ocol
            /\ \A j \in DOMAIN mine :
                 /\ DOMAIN mine[j] = {"datasource_id", "value", col}
                 /\ DOMAIN other[j] = {"datasource_id", "value", ocol}
                 /\ mine[j].datasource_id = other[j].datasource_id
                 /\ mine[j].value = other[j].value
                 /\ mine[j][col] = other[j][ocol]

TzModeWitness ==
    /\ TableReturned
    /\ tz_local
    /\ results[1].recs # <<>>
    /\ results[1].recs[1].Date = [kind |-> "iso", hh |-> 2, off |-> 2]
    /\ ret.rows[1].timestamp_local = [nat |-> FALSE, utc_hour |-> 0]


\* C13: the transport is invoked exactly once for each batch: never for a
\* queued batch, once for a started one whatever its outcome, and when the
\* pool is left every batch of the call has had its one invocation
OneTransportCallPerBatch ==
    /\ \A i \in Submitted :
         futures[i].calls = IF futures[i].state = "pending" THEN 0 ELSE 1
    /\ (pc = "exited" \/ (pc = "returned" /\ ds_ids # <<>>)) =>
         /\ Len(futures) = Len(Chunk(ds_ids, batch_size))
         /\ \A i \in Submitted : futures[i].calls = 1

OneCallWitness ==
    /\ pc = "returned"
    /\ Len(futures) = 2
    /\ Failed(futures[1].resp)
    /\ ~Failed(futures[2].resp)
    /\ \A i \in Submitted : futures[i].calls = 1


\* C14: with no keys the call returns the empty result at once: the pool is
\* never created, nothing is submitted or fetched, and nothing is raised
EmptyKeysShortCircuit ==
    ds_ids = <<>> =>
        /\ pc \in {"start", "returned"}
        /\ futures = <<>>
        /\ err = "none"
        /\ pc = "returned" =>
             ret = IF as_dataframe THEN TableReturn(<<>>) ELSE ListReturn(<<>>)

EmptyKeysWitness ==
    /\ ds_ids = <<>>
    /\ pc = "returned"
    /\ ~as_dataframe
    /\ max_workers = 0
    /\ ret = ListReturn(<<>>)


\* the batches whose request has been sent
SentRequests == {i \in Submitted : futures[i].calls > 0}

\* the dict an optional argument stands for
GivenDict(a) == IF a.given THEN a.dict ELSE <<>>

\* C15: every batch request of the call carries the same headers: the
\* caller's headers as given, TimeZone UTC unless the caller set TimeZone or
\* tz_local was requested (then no TimeZone header is added), and the
\* client's own headers where the caller did not override them
HeadersUniform ==
    \A i \in SentRequests :
        LET h == futures[i].request.headers
            caller == GivenDict(headers)
        IN  /\ \A n \in DOMAIN caller : n \in DOMAIN h /\ h[n] = caller[n]
            /\ "TimeZone" \notin DOMAIN caller =>
                 IF tz_local THEN "TimeZone" \notin DOMAIN h
                 ELSE "TimeZone" \in DOMAIN h /\ h["TimeZone"] = "UTC"
            /\ DOMAIN h = DOMAIN DefaultHeaders \cup DOMAIN caller
                            \cup (IF tz_local THEN {} ELSE {"TimeZone"})
            /\ \A n \in DOMAIN DefaultHeaders \ DOMAIN caller : h[n] = DefaultHeaders[n]
            /\ \A j \in SentRequests : futures[j].request.headers = h

HeadersWitness ==
    /\ ~tz_local
    /\ headers = DictArg([TimeZone |-> "Local"])
    /\ Cardinality(SentRequests) = 2
    /\ \A i \in SentRequests : futures[i].request.headers["TimeZone"] = "Local"

HeadersLocalWitness ==
    /\ tz_local
    /\ headers = DictArg("X-Client" :> "pbi")
    /\ Cardinality(SentRequests) = 2
    /\ \A i \in SentRequests :
         DOMAIN futures[i].request.headers = DOMAIN DefaultHeaders \cup {"X-Client"}


\* C16: the parameters of a batch request are the five defaults, with the
\* batch's keys comma-joined in batch order, and additional_params merged
\* last: a name the caller gave carries the caller's value, every other
\* default is sent unchanged
ParamsMergedLast ==
    \A i \in SentRequests :
        LET p == futures[i].request.params
            extra == GivenDict(additional_params)
        IN  /\ DOMAIN p = {"dataSourceIds", "startDate", "endDate", "aggregationType",
                           "grouping"} \cup DOMAIN extra
            /\ \A n \in DOMAIN extra : p[n] = extra[n]
            /\ "dataSourceIds" \notin DOMAIN extra =>
                 p.dataSourceIds = JoinKeys(futures[i].batch)
            /\ "startDate" \notin DOMAIN extra => p.startDate = start.text
            /\ "endDate" \notin DOMAIN extra => p.endDate = end.text
            /\ "aggregationType" \notin DOMAIN extra => p.aggregationType = aggreg_type
            /\ "grouping" \notin DOMAIN extra => p.grouping = grouping

ParamsWitness ==
    /\ additional_params = DictArg([grouping |-> "hour"])
    /\ start = StartDatetime
    /\ \E i \in SentRequests :
         /\ futures[i].batch = <<1, 2>>
         /\ futures[i].request.params.dataSourceIds = "1,2"
         /\ futures[i].request.params.grouping = "hour"
         /\ futures[i].request.params.startDate = "2025-05-01T00:00:00"
         /\ futures[i].request.params.aggregationType = 1


\* C17: under fair scheduling every submitted batch is eventually started
\* and finished, the call eventually ends with control back at its caller,
\* and a running fetch is never abandoned: it stays running until it finishes
EveryBatchCompletes ==
    /\ \A i \in 1..MaxBatches : (i \in Submitted) ~> (i \in Finished)
    /\ <>(pc \in {"returned", "raised"})
    /\ [][\A i \in Running : i \in Running' \/ i \in Finished']_vars

EveryBatchCompletesWitness ==
    /\ pc = "returned"
    /\ max_workers = 1
    /\ Len(futures) = 2
    /\ Finished = {1, 2}


\* C18: a worker's step changes its own future and nothing else: not the
\* call's arguments, not the outcome collection, not another future.  The
\* outcome collection changes only by the calling thread appending one entry
\* in its collection loop, and never while a future changes
WorkersShareNothing ==
    [][ /\ config' = config
        /\ (\E i \in Submitted : futures'[i] # futures[i]) =>
             /\ Cardinality({i \in Submitted : futures'[i] # futures[i]}) = 1
             /\ Len(futures') = Len(futures)
             /\ results' = results
             /\ order' = order
             /\ <<pc, ret, err>>' = <<pc, ret, err>>
        /\ (results' # results \/ order' # order) =>
             /\ pc = "collect"
             /\ futures' = futures
             /\ Len(results') = Len(results) + 1
             /\ SubSeq(results', 1, Len(results)) = results
             /\ Len(order') = Len(order) + 1
             /\ SubSeq(order', 1, Len(order)) = order
      ]_vars

WorkersShareNothingWitness ==
    /\ pc = "collect"
    /\ max_workers = 2
    /\ Len(results) = 1
    /\ Running # {}
    /\ Finished # {}


\* the raw records a batch's fetch answered, none when it failed
RawRecordsOf(i) ==
    IF Failed(futures[i].resp) \/ futures[i].resp.body.type # "array"
    THEN <<>>
    ELSE futures[i].resp.body.recs

\* the number of rows before the block of the k-th collected batch
BlockStart(k) == SumLen([l \in 1..(k - 1) |-> RawRecordsOf(order[l])])

\* C19: every record of a successful payload has its row in the table, at
\* its place, with its key and value; a Date that cannot be parsed gives the
\* null marker NaT in that row and a parseable one an instant, so a bad
\* timestamp neither raises nor drops its row or the rest of its batch
UnparseableKept ==
    TableReturned =>
        \A k \in DOMAIN order :
            \A j \in DOMAIN RawRecordsOf(order[k]) :
                LET rec == RawRecordsOf(order[k])[j]
                    at == BlockStart(k) + j
                IN  /\ at <= Len(ret.rows)
                    /\ ret.rows[at].datasource_id = rec.DataSourceId
                    /\ ret.rows[at].value = rec.Value
                    /\ rec.Date.kind = "junk" => ret.rows[at][TsCol(tz_local)] = NaT
                    /\ rec.Date.kind = "iso" => ~ret.rows[at][TsCol(tz_local)].nat

UnparseableWitness ==
    /\ TableReturned
    /\ ~tz_local
    /\ Len(results[1].recs) = 2
    /\ results[1].recs[1].Date.kind = "junk"
    /\ results[1].recs[2].Date.kind = "iso"
    /\ Len(ret.rows) >= 2
    /\ ret.rows[1].timestamp_utc = NaT
    /\ ret.rows[1].datasource_id = results[1].recs[1].DataSourceId
    /\ ~ret.rows[2].timestamp_utc.nat


\* C20: the except block of the collection loop never raises: every future
\* of the dict holds the batch it was submitted for, that batch is non-empty,
\* so futures[fut][0] is defined, no IndexError reaches the caller, and every
\* caught failure has appended the empty payload for its batch
HandlerCannotFail ==
    /\ err # "IndexError"
    /\ \A i \in Submitted :
         /\ futures[i].batch = Chunk(ds_ids, batch_size)[i]
         /\ futures[i].batch # <<>>
         /\ ~HandlerRaises(i)
    /\ \A k \in DOMAIN order :
         Caught(futures[order[k]].resp) => results[k] = EmptyPayload

HandlerWitness ==
    /\ pc = "collect"
    /\ Len(futures) = 2
    /\ order = <<2>>
    /\ futures[2].resp.kind = "exception"
    /\ Len(futures[2].batch) = 1
    /\ futures[2].batch[1] = ds_ids[Len(ds_ids)]
    /\ results = <<EmptyPayload>>
    /\ err = "none"

====
